---- MODULE Spec2Model ----
(***************************************************************************)
(* Light-reading UDP swarm (ESP8266 nodes, src/ESP_code/ESP_code.ino).     *)
(* Every node runs setup() once and then loop() forever.  One iteration of *)
(* loop() has two phases: the datagram poll (lines 166-200) and the        *)
(* silence check with the broadcast/election cycle (lines 203-236); the    *)
(* reset branch of the poll blocks in delay(3000) between the two.         *)
(* Datagrams are strings, modelled as sequences of one-character strings,  *)
(* so that framing, formatting and parsing are computed, not assumed.      *)
(*                                                                         *)
(* Time.  The code reads lastReceivedTime only in the difference           *)
(* millis() - lastReceivedTime of line 203, so the model keeps that        *)
(* difference (silence) instead of the two clock values; it grows with the *)
(* clock and is 0 after lastReceivedTime = millis().                       *)
(*                                                                         *)
(* LEDs.  The flash functions called at the top of loop() read analogValue *)
(* and isMaster and write only the LED globals, which nothing else reads;  *)
(* the indicator LED is modelled on its own clock (SpecLed).               *)
(***************************************************************************)
EXTENDS Integers, Sequences, FiniteSets, TLC

VARIABLES
  light,             \* per node: what analogRead(PHOTORESISTOR_PIN) would return
  swarmID,           \* per node: int swarmID (line 21, set in setup)
  analogValue,       \* per node: int analogValue (line 22)
  isMaster,          \* per node: bool isMaster (line 23)
  readings,          \* per node: int readings[10] (line 27)
  silence,           \* per node: millis() - lastReceivedTime (lines 17, 203), saturating
  pc,                \* per node: "poll" | "hold" | "check", the position in loop()
  held,              \* per node: ms spent in delay(3000) so far
  inbox,             \* per node: datagrams queued on UDP port 4210
  memFault,          \* per node: a write went outside readings[0..9]
  got,               \* per node: how the poll of the iteration in progress took its datagram
  sent,              \* per node: the frames transmitted by the latest iteration
  hist,              \* per node: ages (ms) since the last own broadcast / accepted peer frame
  gap,               \* per node: hist as it was when the node last broadcast
  injected,          \* number of foreign datagrams put on the port so far
  resets,            \* number of reset broadcasts of the coordinator so far
  ledArg,            \* indicator LED: analog_value of the latest ledIndicatorFlash call
  ledClock,          \* indicator LED: millis()
  ledInterval,       \* indicator LED: the local ledInterval last computed (line 74)
  ledPrev,           \* indicator LED: ledIndicatorPreviousMillis (line 44)
  ledState           \* indicator LED: ledIndicatorState (line 43)

vars == << light, swarmID, analogValue, isMaster, readings, silence,
           pc, held, inbox, memFault, got, sent, hist, gap, injected, resets,
           ledArg, ledClock, ledInterval, ledPrev, ledState >>

ledVars == << ledArg, ledClock, ledInterval, ledPrev, ledState >>

----------------------------------------------------------------------------
(* Program constants *)

silentTime == 200

resetHold == 3000

TableSize == 10

Y_threshold == 24

Y_interval == 2010

Z_threshold == 1024

Z_interval == 10

(* Bounds of the model *)

\* granularity of the clock: millis() advances in steps of TickStep ms
TickStep == 200

\* datagrams the UDP stack queues per node before it drops
MaxInbox == 4

\* foreign datagrams the environment puts on the port in one run
MaxInject == 2

\* reset broadcasts of the coordinator in one run
MaxResets == 1

\* granularity and end of the LED clock
LedTickStep == 30

LedHorizon == 2100

\* the largest value analogRead returns (10-bit converter)
AdcMax == 1023

\* silence and the ages of hist saturate here: enough to tell "more than silentTime"
AgeCap == silentTime + TickStep

Never == 0 - 1

----------------------------------------------------------------------------
(* Strings: Arduino String and C string operations on character sequences *)

Digits == << "0", "1", "2", "3", "4", "5", "6", "7", "8", "9" >>

IsDigit(c) == \E d \in 1..10 : Digits[d] = c

DigitVal(c) == (CHOOSE d \in 1..10 : Digits[d] = c) - 1

\* a variant of NatToStr that keeps only the last digit
LowDigit(n) == << Digits[(n % 10) + 1] >>

RECURSIVE NatToStr(_)
NatToStr(n) ==
  IF n < 10 THEN << Digits[n + 1] >>
  ELSE NatToStr(n \div 10) \o << Digits[(n % 10) + 1] >>

\* String(int): decimal, with a leading '-' for a negative value
IntToStr(n) == IF n < 0 THEN << "-" >> \o NatToStr(-n) ELSE NatToStr(n)

\* String::startsWith
StartsWith(s, p) ==
  /\ Len(s) >= Len(p)
  /\ SubSeq(s, 1, Len(p)) = p

\* String::endsWith
EndsWith(s, p) ==
  /\ Len(s) >= Len(p)
  /\ SubSeq(s, Len(s) - Len(p) + 1, Len(s)) = p

\* String::substring(left, right): characters left..right-1 (0-based), the
\* arguments swapped when left > right, right cut to the length
Substring(s, left, right) ==
  LET l == IF left > right THEN right ELSE left
      r0 == IF left > right THEN left ELSE right
      r == IF r0 > Len(s) THEN Len(s) ELSE r0
  IN  IF l >= Len(s) THEN << >> ELSE SubSeq(s, l + 1, r)

ESP_startBit == << "~", "~", "~" >>

ESP_endBit == << "-", "-", "-" >>

RPi_startBit == << "+", "+", "+" >>

RPi_endBit == << "*", "*", "*" >>

ResetToken == << "R","E","S","E","T","_","R","E","Q","U","E","S","T","E","D" >>

RoleMaster == << "M", "a", "s", "t", "e", "r" >>

\* the index of the first non-blank character of s at or after i (Len(s)+1 if none)
RECURSIVE SkipBlanks(_, _)
SkipBlanks(s, i) ==
  IF i <= Len(s) /\ s[i] = " " THEN SkipBlanks(s, i + 1) ELSE i

\* the index after the run of digits of s that starts at i
RECURSIVE DigitsEnd(_, _)
DigitsEnd(s, i) ==
  IF i <= Len(s) /\ IsDigit(s[i]) THEN DigitsEnd(s, i + 1) ELSE i

RECURSIVE DigitsVal(_, _, _)
DigitsVal(s, i, j) ==
  IF j <= i THEN 0 ELSE DigitsVal(s, i, j - 1) * 10 + DigitVal(s[j - 1])

\* the element of a one-element set; { e(x) : x \in {v} } computes v once
\* for all its uses in e
The(S) == CHOOSE x \in S : TRUE

\* the digits of a %d conversion whose sign, if any, is at a and whose digits
\* start at b: at least one digit is needed
ScanDigits(s, a, b) ==
  The({ [ ok   |-> e > b,
          val  |-> IF b > a /\ s[a] = "-" THEN -DigitsVal(s, b, e)
                   ELSE DigitsVal(s, b, e),
          next |-> e ] : e \in { DigitsEnd(s, b) } })

\* one %d conversion of sscanf at index i: blanks skipped, an optional sign,
\* then the digits
ScanInt(s, i) ==
  The({ ScanDigits(s, a, IF a <= Len(s) /\ s[a] \in {"-", "+"} THEN a + 1 ELSE a) :
          a \in { SkipBlanks(s, i) } })

NoConversion == [ ok |-> FALSE, val |-> 0, next |-> 0 ]

\* the second conversion of "%d,%d": made when the first one was and a comma
\* follows it
ScanSecond(data, first) ==
  IF first.ok /\ first.next <= Len(data) /\ data[first.next] = ","
  THEN ScanInt(data, first.next + 1)
  ELSE NoConversion

\* sscanf(data, "%d,%d", &a, &b): the number of conversions stored, with the
\* values stored; a conversion that did not happen stores nothing
Sscanf(data) ==
  The({ The({ [ n |-> IF ~first.ok THEN 0 ELSE IF second.ok THEN 2 ELSE 1,
                a |-> first.val,
                b |-> second.val ] :
              second \in { ScanSecond(data, first) } }) :
        first \in { ScanInt(data, 1) } })

\* line 207: ESP_startBit + String(swarmID) + "," + String(analogValue) + ESP_endBit
PeerFrame(id, reading) ==
  ESP_startBit \o IntToStr(id) \o << "," >> \o IntToStr(reading) \o ESP_endBit

\* a variant of MasterFrame that reports the role "Slave"
SlaveFrame(id, reading) ==
  RPi_startBit \o << "S", "l", "a", "v", "e" >> \o << "," >> \o IntToStr(id)
    \o << "," >> \o IntToStr(reading) \o RPi_endBit

\* line 226: RPi_startBit + role + "," + String(swarmID) + "," + String(analogValue) + RPi_endBit
MasterFrame(id, reading) ==
  RPi_startBit \o RoleMaster \o << "," >> \o IntToStr(id) \o << "," >>
    \o IntToStr(reading) \o RPi_endBit

\* the coordinator's reset datagram
ResetFrame == RPi_startBit \o ResetToken \o RPi_endBit

\* a variant of IsPeerFrame that tests the leading delimiter only
HasPeerStart(p) == StartsWith(p, ESP_startBit)

\* lines 178 and 190: the delimiter tests of the poll
IsPeerFrame(p) == StartsWith(p, ESP_startBit) /\ EndsWith(p, ESP_endBit)

IsCtlFrame(p) == StartsWith(p, RPi_startBit) /\ EndsWith(p, RPi_endBit)

\* lines 179 and 191: the payload between the delimiters
PeerData(p) == Substring(p, Len(ESP_startBit), Len(p) - Len(ESP_endBit))

CtlData(p) == Substring(p, Len(RPi_startBit), Len(p) - Len(RPi_endBit))

----------------------------------------------------------------------------
(* The nodes.  A node is named by the last octet of its IP address. *)

Nodes == DOMAIN swarmID

\* values an int that was never assigned may hold
Uninit == { 0 - 1, 7 }

\* what a write outside readings[] may land on: memory the model does not
\* follow, or the neighbouring global isMaster
Victims == { "none", "isMaster" }

\* the UDP stack queues a datagram unless the queue is full
Enqueue(q, f) == IF Len(q) < MaxInbox THEN Append(q, f) ELSE q

RECURSIVE EnqueueAll(_, _)
EnqueueAll(q, fs) ==
  IF fs = << >> THEN q ELSE EnqueueAll(Enqueue(q, Head(fs)), Tail(fs))

\* udp.beginPacket(broadcastIP, localPort) ... udp.endPacket(): every other
\* node listening on the port gets the datagrams
Broadcast(n, fs) ==
  [ m \in Nodes |-> IF m = n THEN inbox[m] ELSE EnqueueAll(inbox[m], fs) ]

\* a variant of Elect in which an entry equal to the sample also wins
ElectNoTies(id, table, value) ==
  \A i \in 0..(TableSize - 1) : i = id \/ table[i] < value

\* a variant of Elect that breaks a tie in favour of the lower swarmID
ElectLowIdWins(id, table, value) ==
  \A i \in 0..(TableSize - 1) :
    i = id \/ table[i] < 0 \/ table[i] < value \/ (table[i] = value /\ i > id)

\* lines 215-221: the election loop from index i on
RECURSIVE ElectFrom(_, _, _, _)
ElectFrom(i, id, table, value) ==
  IF i >= TableSize THEN TRUE
  ELSE IF i # id /\ table[i] >= 0 /\ table[i] > value THEN FALSE
  ELSE ElectFrom(i + 1, id, table, value)

Elect(id, table, value) == ElectFrom(0, id, table, value)

\* what the poll does with datagram p: the two tests of lines 178 and 190 are
\* made one after the other, each on its own
Tags(p) ==
  {"pkt"} \cup (IF IsPeerFrame(p) THEN {"peer"} ELSE {})
          \cup (IF IsCtlFrame(p) THEN {"ctl"} ELSE {})
          \cup (IF IsCtlFrame(p) /\ CtlData(p) = ResetToken THEN {"reset"} ELSE {})

MinAge(a, b) == IF a < b THEN a ELSE b

\* an age after d more ms
Older(a, d) == IF a = Never THEN Never ELSE MinAge(a + d, AgeCap)

\* a variant of CycleDue that also fires right after a peer frame was taken
CycleDueOrFresh(n) == silence[n] > silentTime \/ "peer" \in got[n]

\* a variant of CycleDue that never fires
CycleNever(n) == FALSE

\* a variant of CycleDue that skips the iteration that took a reset
CycleDueUnlessReset(n) == silence[n] > silentTime /\ "reset" \notin got[n]

\* a variant of CycleDue with >= in place of >
CycleDueAt(n) == silence[n] >= silentTime

\* line 203: millis() - lastReceivedTime > silentTime
CycleDue(n) == silence[n] > silentTime

\* lines 178-187: what the first test of the poll does with datagram p to the
\* globals of node n, when sscanf returned sc, the ints it leaves unassigned
\* hold ga and gb, and a write outside the table lands on hit
PeerBranch(n, p, sc, ga, gb, hit) ==
  LET peer == IsPeerFrame(p)
      receivedSwarmID == IF sc.n >= 1 THEN sc.a ELSE ga
      receivedReading == IF sc.n = 2 THEN sc.b ELSE gb
      inTable == receivedSwarmID \in 0..(TableSize - 1)
  IN  [ tags     |-> Tags(p),
        readings |-> IF peer /\ inTable
                     THEN [readings[n] EXCEPT ![receivedSwarmID] = receivedReading]
                     ELSE readings[n],
        memFault |-> memFault[n] \/ (peer /\ ~inTable),
        silence  |-> IF peer THEN 0 ELSE silence[n],
        isMaster |-> IF peer /\ ~inTable /\ hit = "isMaster" THEN receivedReading # 0
                     ELSE isMaster[n],
        hold     |-> FALSE ]

\* a variant of ResetBranch that takes every controller frame for a reset
ResetBranchAnyCtl(g, p) ==
  IF IsCtlFrame(p)
  THEN [g EXCEPT !.isMaster = TRUE, !.hold = TRUE]
  ELSE g

\* a variant of ResetBranch that also forgets the table
ResetBranchClearing(g, p) ==
  IF IsCtlFrame(p) /\ CtlData(p) = ResetToken
  THEN [g EXCEPT !.isMaster = TRUE, !.hold = TRUE,
                 !.readings = [ i \in 0..(TableSize - 1) |-> 0 - 1 ]]
  ELSE g

\* lines 190-199: what the second test of the poll does with datagram p to
\* the globals g the first test left
ResetBranch(g, p) ==
  IF IsCtlFrame(p) /\ CtlData(p) = ResetToken
  THEN [g EXCEPT !.isMaster = TRUE, !.hold = TRUE]
  ELSE g

\* lines 177-199: the two tests in sequence
Handle(n, p, sc, ga, gb, hit) == ResetBranch(PeerBranch(n, p, sc, ga, gb, hit), p)

\* the outcomes the poll of datagram p can have on node n
Outcomes(n, p) ==
  UNION { { Handle(n, p, sc, ga, gb, hit) :
              ga \in (IF IsPeerFrame(p) /\ sc.n < 1 THEN Uninit ELSE {0}),
              gb \in (IF IsPeerFrame(p) /\ sc.n < 2 THEN Uninit ELSE {0}),
              hit \in (IF IsPeerFrame(p) THEN Victims ELSE {"none"}) } :
          sc \in { Sscanf(PeerData(p)) } }

\* lines 166-200: the poll phase of one loop() iteration.  An iteration that
\* finds no datagram and no cycle due changes nothing and is left out.
Poll(n) ==
  /\ pc[n] = "poll"
  /\ inbox[n] # << >> \/ CycleDue(n)
  /\ sent' = [sent EXCEPT ![n] = << >>]
  /\ IF inbox[n] = << >>
     THEN /\ got' = [got EXCEPT ![n] = {}]
          /\ pc' = [pc EXCEPT ![n] = "check"]
          /\ UNCHANGED << inbox, readings, silence, memFault, isMaster, held, hist >>
     ELSE \E o \in Outcomes(n, Head(inbox[n])) :
            /\ inbox' = [inbox EXCEPT ![n] = Tail(inbox[n])]
            /\ got' = [got EXCEPT ![n] = o.tags]
            /\ readings' = [readings EXCEPT ![n] = o.readings]
            /\ memFault' = [memFault EXCEPT ![n] = o.memFault]
            /\ silence' = [silence EXCEPT ![n] = o.silence]
            /\ isMaster' = [isMaster EXCEPT ![n] = o.isMaster]
            /\ hist' = IF "peer" \in o.tags THEN [hist EXCEPT ![n].accept = 0] ELSE hist
            /\ pc' = [pc EXCEPT ![n] = IF o.hold THEN "hold" ELSE "check"]
            /\ held' = IF o.hold THEN [held EXCEPT ![n] = 0] ELSE held
  /\ UNCHANGED << light, swarmID, analogValue, gap, injected, resets, ledVars >>

\* a variant of HoldOver that does not wait
HoldOverAtOnce(n) == held[n] >= 0

\* line 197: the 3000 ms of delay(3000) have passed
HoldOver(n) == held[n] >= resetHold

\* line 197: delay(3000) returns
HoldEnd(n) ==
  /\ pc[n] = "hold"
  /\ HoldOver(n)
  /\ pc' = [pc EXCEPT ![n] = "check"]
  /\ UNCHANGED << light, swarmID, analogValue, isMaster, readings, silence, held,
                  inbox, memFault, got, sent, hist, gap, injected, resets, ledVars >>

\* lines 203-236: the silence check and, when due, the broadcast cycle
Check(n) ==
  /\ pc[n] = "check"
  /\ pc' = [pc EXCEPT ![n] = "poll"]
  /\ IF CycleDue(n)
     THEN LET value == light[n]
              message == PeerFrame(swarmID[n], value)
              master == Elect(swarmID[n], readings[n], value)
              masterMessage == MasterFrame(swarmID[n], value)
              frames == IF master THEN << message, masterMessage >> ELSE << message >>
          IN  /\ analogValue' = [analogValue EXCEPT ![n] = value]
              /\ silence' = [silence EXCEPT ![n] = 0]
              /\ isMaster' = [isMaster EXCEPT ![n] = master]
              /\ inbox' = Broadcast(n, frames)
              /\ sent' = [sent EXCEPT ![n] = frames]
              /\ gap' = [gap EXCEPT ![n] = hist[n]]
              /\ hist' = [hist EXCEPT ![n].bcast = 0]
     ELSE UNCHANGED << analogValue, silence, isMaster, inbox, sent, gap, hist >>
  /\ got' = [got EXCEPT ![n] = {}]
  /\ UNCHANGED << light, swarmID, readings, held, memFault, injected, resets, ledVars >>

\* a node that has nothing to do until the clock moves
Quiescent(n) ==
  \/ pc[n] = "poll" /\ inbox[n] = << >> /\ ~CycleDue(n)
  \/ pc[n] = "hold" /\ ~HoldOver(n)

\* millis() advances by TickStep; loop() iterations take far less than that, so
\* every node has finished what it can do at the current instant
Tick ==
  /\ \A n \in Nodes : Quiescent(n)
  /\ silence' = [ n \in Nodes |-> Older(silence[n], TickStep) ]
  /\ held' = [ n \in Nodes |-> IF pc[n] = "hold" THEN held[n] + TickStep ELSE held[n] ]
  /\ hist' = [ n \in Nodes |->
               [ bcast  |-> Older(hist[n].bcast, TickStep),
                 accept |-> Older(hist[n].accept, TickStep) ] ]
  /\ UNCHANGED << light, swarmID, analogValue, isMaster, readings,
                  pc, inbox, memFault, got, sent, gap, injected, resets, ledVars >>

----------------------------------------------------------------------------
(* The environment: the light, the network, the coordinator *)

\* light levels the photoresistor is exposed to
LightLevels == { 0, 100, 500 }

\* the light on a node's photoresistor changes
LightChange(n, v) ==
  /\ light[n] # v
  /\ light' = [light EXCEPT ![n] = v]
  /\ UNCHANGED << swarmID, analogValue, isMaster, readings, silence,
                  pc, held, inbox, memFault, got, sent, hist, gap, injected,
                  resets, ledVars >>

\* UDP is best effort: the datagram a node would read next is lost
Drop(n) ==
  /\ inbox[n] # << >>
  /\ inbox' = [inbox EXCEPT ![n] = Tail(inbox[n])]
  /\ UNCHANGED << light, swarmID, analogValue, isMaster, readings,
                  silence, pc, held, memFault, got, sent, hist, gap,
                  injected, resets, ledVars >>

\* datagrams that anything on the network may send to port 4210: the frames
\* of a node with swarmID 7 and of the coordinator, and malformed ones
ForeignFrames ==
  { PeerFrame(7, 500),
    MasterFrame(7, 500),
    ResetFrame,
    << "~","~","~","o","o","p","s" >>,
    << "~","~","~","o","o","p","s","-","-","-" >>,
    << "~","~","~","3","-","-","-" >>,
    << "~","~","~","1","2",",","5","-","-","-" >>,
    << "+","+","+","o","o","p","s","*","*","*" >> }

Inject(n, f) ==
  /\ injected < MaxInject
  /\ Len(inbox[n]) < MaxInbox
  /\ injected' = injected + 1
  /\ inbox' = [inbox EXCEPT ![n] = Append(inbox[n], f)]
  /\ UNCHANGED << light, swarmID, analogValue, isMaster, readings,
                  silence, pc, held, memFault, got, sent, hist, gap,
                  resets, ledVars >>

\* the coordinator's button: the reset datagram is broadcast and reaches the
\* nodes of rcv
CoordinatorReset(rcv) ==
  /\ resets < MaxResets
  /\ rcv # {}
  /\ resets' = resets + 1
  /\ inbox' = [ m \in Nodes |-> IF m \in rcv THEN Enqueue(inbox[m], ResetFrame)
                                ELSE inbox[m] ]
  /\ UNCHANGED << light, swarmID, analogValue, isMaster, readings,
                  silence, pc, held, memFault, got, sent, hist, gap,
                  injected, ledVars >>

----------------------------------------------------------------------------
(* The indicator LED *)

\* C integer division: the quotient is truncated towards zero
CDiv(a, b) ==
  LET q == (IF a < 0 THEN -a ELSE a) \div (IF b < 0 THEN -b ELSE b)
  IN  IF (a < 0) = (b < 0) THEN q ELSE -q

\* a variant of getSlopeIntercept with the sign of the intercept term flipped
getSlopeInterceptPlus(x1, y1, x2, y2) ==
  [ a |-> CDiv(y2 - y1, x2 - x1), b |-> y1 + CDiv(y2 - y1, x2 - x1) * x1 ]

\* lines 49-62: *a = (y2 - y1) / (x2 - x1); *b = y1 - (*a) * x1
getSlopeIntercept(x1, y1, x2, y2) ==
  [ a |-> CDiv(y2 - y1, x2 - x1), b |-> y1 - CDiv(y2 - y1, x2 - x1) * x1 ]

\* line 142: the globals slope and intercept after setup()
slope == getSlopeIntercept(Y_threshold, Y_interval, Z_threshold, Z_interval).a

intercept == getSlopeIntercept(Y_threshold, Y_interval, Z_threshold, Z_interval).b

\* a variant of FlashDue that clamps the interval at 0
FlashDueClamped(elapsed, interval) ==
  elapsed >= (IF interval < 0 THEN 0 ELSE interval)

\* line 76: currentMillis - ledIndicatorPreviousMillis >= ledInterval, compared
\* as unsigned long: a negative interval converts to a value of 2^31 or more,
\* which an elapsed time below LedHorizon never reaches
FlashDue(elapsed, interval) == interval >= 0 /\ elapsed >= interval

\* values the flash function is called with: readings of the converter and
\* an int beyond them
LedReadings == { 0, Y_threshold, 512, AdcMax, Z_threshold, 1100 }

\* lines 65-81
ledIndicatorFlash(analog_value) ==
  /\ ledArg' = analog_value
  /\ ledInterval' = slope * analog_value + intercept
  /\ IF FlashDue(ledClock - ledPrev, slope * analog_value + intercept)
     THEN /\ ledPrev' = ledClock
          /\ ledState' = ~ledState
     ELSE UNCHANGED << ledPrev, ledState >>
  /\ UNCHANGED << ledClock, light, swarmID, analogValue, isMaster, readings, silence,
                  pc, held, inbox, memFault, got, sent, hist, gap, injected, resets >>

\* millis() advances by LedTickStep
LedTick ==
  /\ ledClock + LedTickStep <= LedHorizon
  /\ ledClock' = ledClock + LedTickStep
  /\ UNCHANGED << ledArg, ledInterval, ledPrev, ledState,
                  light, swarmID, analogValue, isMaster, readings, silence,
                  pc, held, inbox, memFault, got, sent, hist, gap, injected, resets >>

----------------------------------------------------------------------------
(* Initial states *)

\* line 27: int readings[10] = {-1} sets entry 0 to -1 and the rest to 0
InitialTable == [ i \in 0..(TableSize - 1) |-> IF i = 0 THEN 0 - 1 ELSE 0 ]

NoAges == [ bcast |-> Never, accept |-> Never ]

\* a variant of SwarmIdOf that leaves the value of line 21
SwarmIdUnset(octet) == 0 - 1

\* line 133: swarmID = ip[3] % 10
SwarmIdOf(octet) == octet % 10

\* the globals of every node in `octets` when setup() has returned, with the
\* light given by lv; the WiFi wait of lines 121-126 takes at least one
\* delay(500), so millis() - lastReceivedTime is already beyond silentTime
NodesInit(octets, lv) ==
  /\ light = lv
  /\ swarmID = [ n \in octets |-> SwarmIdOf(n) ]
  /\ analogValue = [ n \in octets |-> 0 ]
  /\ isMaster = [ n \in octets |-> TRUE ]
  /\ readings = [ n \in octets |-> InitialTable ]
  /\ silence = [ n \in octets |-> AgeCap ]
  /\ pc = [ n \in octets |-> "poll" ]
  /\ held = [ n \in octets |-> 0 ]
  /\ inbox = [ n \in octets |-> << >> ]
  /\ memFault = [ n \in octets |-> FALSE ]
  /\ got = [ n \in octets |-> {} ]
  /\ sent = [ n \in octets |-> << >> ]
  /\ hist = [ n \in octets |-> NoAges ]
  /\ gap = [ n \in octets |-> NoAges ]
  /\ injected = 0
  /\ resets = 0

LedIdle ==
  /\ ledArg = 0
  /\ ledClock = 0
  /\ ledInterval = 0
  /\ ledPrev = 0
  /\ ledState = FALSE

\* last octets of the IP addresses of the nodes
SwarmOctets == { 13, 27 }

Init ==
  /\ \E lv \in [SwarmOctets -> LightLevels] : NodesInit(SwarmOctets, lv)
  /\ LedIdle

\* the nodes themselves: the clock and the two phases of loop()
NodeStep ==
  \/ Tick
  \/ \E n \in Nodes : Poll(n)
  \/ \E n \in Nodes : Check(n)

\* the swarm on a lossy network under changing light
Next ==
  \/ NodeStep
  \/ \E n \in Nodes : Drop(n)
  \/ \E n \in Nodes, v \in LightLevels : LightChange(n, v)

Spec == Init /\ [][Next]_vars

\* the swarm with the coordinator's reset button
NextReset ==
  \/ NodeStep
  \/ \E n \in Nodes : HoldEnd(n)
  \/ \E rcv \in SUBSET Nodes : CoordinatorReset(rcv)

SpecReset == Init /\ [][NextReset]_vars

\* one node on a port that any sender reaches
InitOpen ==
  /\ \E lv \in [{13} -> LightLevels] : NodesInit({13}, lv)
  /\ LedIdle

NextOpen ==
  \/ NodeStep
  \/ \E n \in Nodes : HoldEnd(n)
  \/ \E n \in Nodes, f \in ForeignFrames : Inject(n, f)

SpecOpen == InitOpen /\ [][NextOpen]_vars

\* a sender with any swarmID and any reading next to a receiver in the dark:
\* what one node formats the other parses
InitCodec ==
  /\ \E o \in TableSize..(2 * TableSize - 1), r \in 0..AdcMax :
       NodesInit({o, o + 1}, (o :> r @@ (o + 1) :> 0))
  /\ LedIdle

NextCodec ==
  \/ \E n \in Nodes : Poll(n)
  \/ \E n \in Nodes : Check(n)

SpecCodec == InitCodec /\ [][NextCodec]_vars

\* the indicator LED of one node under every reading of LedReadings
InitLed ==
  /\ NodesInit({13}, (13 :> 0))
  /\ LedIdle

NextLed ==
  \/ LedTick
  \/ \E v \in LedReadings : ledIndicatorFlash(v)

SpecLed == InitLed /\ [][NextLed]_vars

\* three nodes A, B, C with the fixed readings 100, 900, 500 on a network
\* that loses nothing.  loop() runs forever on every node and the clock runs
\* on: the clock waits for the nodes that have something to do (Tick), and no
\* node can act twice on the same cause, so weak fairness of NodeStep gives
\* every node its steps
EndToEndLight == ( 11 :> 100 @@ 12 :> 900 @@ 13 :> 500 )

InitEndToEnd ==
  /\ NodesInit(DOMAIN EndToEndLight, EndToEndLight)
  /\ LedIdle

SpecEndToEnd ==
  /\ InitEndToEnd
  /\ [][NodeStep]_vars
  /\ WF_vars(NodeStep)

----------------------------------------------------------------------------
(* Election *)

\* a node whose latest loop() iteration ran the broadcast cycle and has not
\* polled since: its table, sample and flag are those of the cycle's end
Cycled(n) == sent[n] # << >>

Indices == 0..(TableSize - 1)

\* some other swarmID's entry is strictly greater than the node's own sample
Outshone(n) ==
  \E i \in Indices : i # swarmID[n] /\ readings[n][i] > analogValue[n]

\* each of the two nodes holds the other's current sample in its table
HoldEachOther(n, m) ==
  /\ readings[n][swarmID[m]] = analogValue[m]
  /\ readings[m][swarmID[n]] = analogValue[n]

\* C1: at the end of every broadcast cycle isMaster is true exactly when no
\* other swarmID's table entry is strictly greater than the sample just taken
\* (equal and unset entries never make a slave); of two nodes that hold each
\* other's reading, the cycle of the greater one ends master and the cycle of
\* the smaller one ends slave.
C1_ElectionRule ==
  /\ \A n \in Nodes : Cycled(n) => (isMaster[n] <=> ~Outshone(n))
  /\ \A n \in Nodes : \A m \in Nodes \ {n} :
       (HoldEachOther(n, m) /\ analogValue[n] > analogValue[m])
         => /\ Cycled(n) => isMaster[n]
            /\ Cycled(m) => ~isMaster[m]

\* both nodes have cycled holding each other's reading, 500 against 100
C1_Witness ==
  /\ Cycled(13) /\ Cycled(27)
  /\ analogValue[13] = 500 /\ analogValue[27] = 100
  /\ HoldEachOther(13, 27)
  /\ isMaster[13] /\ ~isMaster[27]

\* exactly the node with the highest reading is master
OnlyHighestIsMaster ==
  \A n \in Nodes : isMaster[n] <=> (\A m \in Nodes : light[m] <= light[n])

\* C2: with fixed distinct readings and every broadcast delivered, the swarm
\* eventually reaches, and then stays in, a state where exactly the node with
\* the highest reading is master.
C2_Converges == <>[]OnlyHighestIsMaster

----------------------------------------------------------------------------
(* Reset *)

\* the step in which node n's poll takes the coordinator's reset datagram
ResetTaken(n) ==
  /\ pc[n] = "poll" /\ pc'[n] # "poll"
  /\ inbox[n] # << >> /\ Head(inbox[n]) = ResetFrame

\* C3: the poll that takes a reset datagram leaves isMaster true, whatever it
\* was, and starts the hold; for as long as the node is in the hold isMaster
\* stays true and the node sends neither frame; the hold ends only when
\* 3000 ms of it have passed.
C3_ResetHold ==
  [][ \A n \in Nodes :
        /\ ResetTaken(n) =>
              /\ isMaster'[n]
              /\ pc'[n] = "hold" /\ held'[n] = 0
              /\ sent'[n] = << >>
        /\ pc[n] = "hold" =>
              /\ isMaster[n] /\ isMaster'[n]
              /\ sent[n] = << >> /\ sent'[n] = << >>
              /\ inbox'[n] # inbox[n] => Len(inbox'[n]) > Len(inbox[n])
              /\ pc'[n] # "hold" => held[n] >= resetHold ]_vars

\* a node whose table holds a reading above its own sample has sat out the
\* whole hold as master
C3_Witness ==
  \E n \in Nodes :
    /\ pc[n] = "hold" /\ held[n] >= resetHold
    /\ Outshone(n)
    /\ isMaster[n]

----------------------------------------------------------------------------
(* Timing of the broadcast cycle *)

\* the silence check of node n runs
CheckStep(n) == pc[n] = "check" /\ pc'[n] = "poll"

\* the silence check of node n runs the broadcast cycle
Broadcasts(n) == CheckStep(n) /\ sent'[n] # << >>

\* the poll of node n takes a peer frame
Accepts(n) == pc[n] = "poll" /\ pc'[n] = "check" /\ "peer" \in got'[n]

\* ms since the later of node n's last broadcast and the last peer frame it
\* took; since the start of setup() when there was neither
Since(n) ==
  LET b == hist[n].bcast
      a == hist[n].accept
  IN  IF a = Never /\ b = Never THEN AgeCap
      ELSE IF a = Never THEN b
      ELSE IF b = Never THEN a
      ELSE MinAge(a, b)

\* C4 as stated: a cycle starts when the silence has lasted silentTime, and
\* also right after the poll took a peer frame.
C4_TwoTriggers ==
  [][ \A n \in Nodes :
        CheckStep(n) =>
          /\ Since(n) > silentTime => sent'[n] # << >>
          /\ "peer" \in got[n] => sent'[n] # << >> ]_vars

\* C4: the silence check starts a cycle exactly when more than 200 ms have
\* passed since the later of the node's last broadcast and the last peer
\* frame it took; the iteration that took a peer frame never starts one.
C4_SilenceOnly ==
  [][ \A n \in Nodes :
        CheckStep(n) =>
          /\ sent'[n] # << >> <=> Since(n) > 200
          /\ "peer" \in got[n] => sent'[n] = << >> ]_vars

\* an iteration has taken a peer frame into the table and ended without a
\* broadcast, at the instant of the frame
C4_Witness ==
  \E n \in Nodes :
    /\ pc[n] = "poll" /\ got[n] = {}
    /\ hist[n].accept = 0
    /\ sent[n] = << >>
    /\ readings[n] # InitialTable

\* an age that is more than silentTime, or of something that never happened
Past(a) == a = Never \/ a > 200

\* C5: a node broadcasts only when its last broadcast and the last peer
\* frame it took are both more than 200 ms back, so two broadcasts of a node
\* are more than 200 ms apart; taking a peer frame and broadcasting both
\* restart the silence.
C5_BroadcastSpacing ==
  [][ \A n \in Nodes :
        /\ Broadcasts(n) =>
              /\ Past(hist[n].bcast) /\ Past(hist[n].accept)
              /\ silence'[n] = 0
        /\ Accepts(n) => silence'[n] = 0 ]_vars

\* a node has broadcast again, after an earlier broadcast and a peer frame
C5_Witness ==
  \E n \in Nodes :
    /\ Cycled(n)
    /\ gap[n].bcast > silentTime
    /\ gap[n].accept > silentTime

----------------------------------------------------------------------------
(* Datagrams that are not frames *)

\* the step in which node n's poll takes the datagram at the head of its queue
Takes(n) == pc[n] = "poll" /\ pc'[n] # "poll" /\ inbox[n] # << >>

PeerDelimited(p) == StartsWith(p, ESP_startBit) /\ EndsWith(p, ESP_endBit)

CtlDelimited(p) == StartsWith(p, RPi_startBit) /\ EndsWith(p, RPi_endBit)

Oops == << "~", "~", "~", "o", "o", "p", "s" >>

\* C6: taking a datagram with neither delimiter pair, "~~~oops" for one,
\* changes neither the table nor isMaster nor the silence nor the sample,
\* and the iteration goes on to its silence check.
C6_JunkIgnored ==
  [][ \A n \in Nodes :
        ( /\ Takes(n)
          /\ \/ Head(inbox[n]) = Oops
             \/ ~PeerDelimited(Head(inbox[n])) /\ ~CtlDelimited(Head(inbox[n])) )
        => /\ readings'[n] = readings[n]
           /\ isMaster'[n] = isMaster[n]
           /\ silence'[n] = silence[n]
           /\ analogValue'[n] = analogValue[n]
           /\ memFault'[n] = memFault[n]
           /\ pc'[n] = "check" ]_vars

\* a poll has taken a datagram that is neither a peer nor a controller frame
C6_Witness ==
  \E n \in Nodes : pc[n] = "check" /\ got[n] = {"pkt"}

\* peer-delimited datagrams whose payload is not "<int>,<int>"
Unparsable ==
  { << "~","~","~","o","o","p","s","-","-","-" >>,
    << "~","~","~","3","-","-","-" >> }

\* C7: taking a peer-delimited datagram whose payload does not parse changes
\* neither the table nor the silence.
C7_ParseFailureDropped ==
  [][ \A n \in Nodes :
        (Takes(n) /\ Head(inbox[n]) \in Unparsable)
        => /\ readings'[n] = readings[n]
           /\ silence'[n] = silence[n] ]_vars

----------------------------------------------------------------------------
(* The peer frame *)

\* C8: a node that has just taken a peer frame has taken it as one, holds
\* the sender's reading under the sender's swarmID, has written nothing else
\* and nothing outside the table; the frame for (3, 512) is "~~~3,512---".
C8_RoundTrip ==
  \A r \in Nodes : \A s \in Nodes \ {r} :
    /\ (pc[r] = "check" /\ got[r] # {}) => got[r] \in { {"pkt", "peer"}, {"pkt", "ctl"} }
    /\ (pc[r] = "check" /\ "peer" \in got[r]) =>
          /\ readings[r][swarmID[s]] = light[s]
          /\ \A i \in Indices \ {swarmID[s]} : readings[r][i] = InitialTable[i]
          /\ ~memFault[r]
    /\ (Cycled(s) /\ swarmID[s] = 3 /\ light[s] = 512) =>
          sent[s][1] = << "~","~","~","3",",","5","1","2","-","-","-" >>

\* the receiver next to sender 13 has taken the frame for (3, 512)
C8_Witness ==
  /\ Nodes = {13, 14}
  /\ light[13] = 512
  /\ pc[14] = "check" /\ "peer" \in got[14]
  /\ readings[14][3] = 512

----------------------------------------------------------------------------
(* The flash interval *)

\* C9: the interval computed for reading 24 is 2010 and for reading 1024 is 10.
C9_IntervalEndpoints ==
  /\ slope * 24 + intercept = 2010
  /\ slope * 1024 + intercept = 10
  /\ ledArg = 24 => ledInterval = 2010
  /\ ledArg = 1024 => ledInterval = 10

\* the flash function has been called with 1024 and has toggled the LED
C9_Witness ==
  /\ ledArg = 1024
  /\ ledInterval = 10
  /\ ledPrev > 0

----------------------------------------------------------------------------
(* The table *)

----------------------------------------------------------------------------
(* The table across a reset *)

\* C11: once a node has taken the reset datagram its table is the one it
\* started with: it holds no reading taken before the reset.
C11_ResetClearsTable ==
  [][ \A n \in Nodes : ResetTaken(n) => readings'[n] = InitialTable ]_vars

----------------------------------------------------------------------------
(* Ties *)

\* C12: of two nodes with equal samples that hold each other's reading, each
\* ends its cycle as master; nothing between the nodes breaks the tie.
C12_TieBothMaster ==
  \A n \in Nodes : \A m \in Nodes \ {n} :
    ( /\ swarmID[n] # swarmID[m]
      /\ analogValue[n] = analogValue[m]
      /\ HoldEachOther(n, m)
      /\ Cycled(n) )
    => isMaster[n]

\* both nodes have cycled on 500 holding each other's 500, and both are master
C12_Witness ==
  /\ Cycled(13) /\ Cycled(27)
  /\ analogValue[13] = 500 /\ analogValue[27] = 500
  /\ HoldEachOther(13, 27)
  /\ isMaster[13] /\ isMaster[27]

----------------------------------------------------------------------------
(* The master flag against the readings *)

\* C13: in every state a node that is master has a sample that no other
\* node's sample exceeds.
C13_MasterIsHighest ==
  \A n \in Nodes : isMaster[n] =>
    \A m \in Nodes : analogValue[m] <= analogValue[n]

----------------------------------------------------------------------------
(* What a cycle sends *)

\* the frames of node n's latest cycle: one peer frame with its swarmID and
\* sample, followed by one master report with the same two numbers exactly
\* when the cycle ended as master
CycleFrames(n) ==
  /\ Len(sent[n]) = (IF isMaster[n] THEN 2 ELSE 1)
  /\ sent[n][1] = << "~", "~", "~" >> \o IntToStr(swarmID[n]) \o << "," >>
                    \o IntToStr(analogValue[n]) \o << "-", "-", "-" >>
  /\ isMaster[n] =>
       sent[n][2] = << "+", "+", "+", "M", "a", "s", "t", "e", "r", "," >>
                      \o IntToStr(swarmID[n]) \o << "," >>
                      \o IntToStr(analogValue[n]) \o << "*", "*", "*" >>

\* C14: a cycle sends one peer frame and then, exactly when its election
\* yields master, one master report with role "Master" and the same swarmID
\* and reading; a datagram reaches a queue only from the cycle of another
\* node, so no master report is sent outside a cycle.
C14_CycleFrames ==
  [][ /\ \A n \in Nodes : Cycled(n)' => CycleFrames(n)'
      /\ \A n \in Nodes : sent'[n] # << >> => Broadcasts(n) \/ sent'[n] = sent[n]
      /\ \A m \in Nodes :
           Len(inbox'[m]) > Len(inbox[m]) =>
             \E n \in Nodes \ {m} :
               /\ Broadcasts(n)
               /\ \E k \in 1..Len(sent'[n]) :
                    inbox'[m] = inbox[m] \o SubSeq(sent'[n], 1, k) ]_vars

\* one node has ended a cycle as slave with a single frame while the other
\* has ended one as master with two
C14_Witness ==
  \E n \in Nodes : \E m \in Nodes \ {n} :
    /\ Cycled(n) /\ ~isMaster[n] /\ Len(sent[n]) = 1
    /\ Cycled(m) /\ isMaster[m] /\ Len(sent[m]) = 2

----------------------------------------------------------------------------
(* Heartbeat *)

\* C15 as stated: every node broadcasts again and again, for ever.
C15_EveryNodeBeats ==
  \A n \in DOMAIN EndToEndLight : []<>(hist[n].bcast = 0)

\* C15: every node again and again either broadcasts or takes a peer frame,
\* so every 200 ms of silence on a node end in a broadcast of that node; a
\* node that keeps taking peer frames need not broadcast at all.
C15_BeatsOrHears ==
  \A n \in DOMAIN EndToEndLight : []<>(hist[n].bcast = 0 \/ hist[n].accept = 0)

\* a node that has never broadcast has just taken the frame another node
\* has just broadcast
C15_Witness ==
  \E n \in Nodes : \E m \in Nodes \ {n} :
    /\ hist[n].bcast = Never /\ hist[n].accept = 0
    /\ hist[m].bcast = 0
    /\ pc[n] = "poll" /\ inbox[n] = << >>

----------------------------------------------------------------------------
(* swarmID *)

\* the frames of node n's latest cycle carry one digit as swarmID: the
\* peer frame right after "~~~", the master report right after "+++Master,"
OneDigitId(n) ==
  /\ IsDigit(sent[n][1][4]) /\ sent[n][1][5] = ","
  /\ Len(sent[n]) > 1 => IsDigit(sent[n][2][11]) /\ sent[n][2][12] = ","

\* C16: swarmID is in 0..9 from the first step of loop() on and never
\* changes, and every peer frame and master report carries a swarmID of
\* 0..9, never -1.
C16_SwarmIdSet ==
  [][ /\ swarmID' = swarmID
      /\ \A n \in Nodes :
           /\ swarmID[n] \in 0..9
           /\ Cycled(n)' => OneDigitId(n)' ]_vars

\* node 13 has sent a peer frame and a master report, both with swarmID 3
C16_Witness ==
  /\ Cycled(13) /\ Len(sent[13]) = 2
  /\ sent[13][1][4] = "3"
  /\ sent[13][2][11] = "3"

----------------------------------------------------------------------------
(* The flash interval beyond the calibration range *)

\* a call of the flash function: the clock stands still
FlashStep == ledClock' = ledClock

----------------------------------------------------------------------------
(* The two frame classes on one port *)

\* C18: no datagram is taken both as a peer frame and as a controller frame,
\* and taking a controller-delimited datagram other than the reset, a master
\* report for one, changes neither the table nor isMaster nor the silence.
C18_ClassesApart ==
  [][ \A n \in Nodes :
        Takes(n) =>
          /\ ~("peer" \in got'[n] /\ "ctl" \in got'[n])
          /\ ~(PeerDelimited(Head(inbox[n])) /\ CtlDelimited(Head(inbox[n])))
          /\ (CtlDelimited(Head(inbox[n])) /\ Head(inbox[n]) # ResetFrame) =>
               /\ readings'[n] = readings[n]
               /\ isMaster'[n] = isMaster[n]
               /\ silence'[n] = silence[n]
               /\ pc'[n] = "check" ]_vars

\* a slave has taken a controller frame that is not the reset and is still
\* a slave
C18_Witness ==
  \E n \in Nodes :
    /\ pc[n] = "check" /\ got[n] = {"pkt", "ctl"}
    /\ ~isMaster[n]

----------------------------------------------------------------------------
(* The iteration that ends the hold *)

----------------------------------------------------------------------------
(* The bounds of the table *)

\* C20: no node ever writes outside the 10 entries of its table, whatever
\* peer-delimited datagram it takes.
C20_WritesInBounds ==
  \A n \in Nodes : ~memFault[n]

====
